---- MODULE Spec2Model ----
(***************************************************************************)
(* Model of src/persistent.py: the persistent segment tree                 *)
(* (PersistentSegmentTree) and the branch tracker built on it              *)
(* (FlightSearchBranchManager).                                            *)
(*                                                                         *)
(* Python objects live in an arena: heap is the sequence of all            *)
(* PersistentSegmentTreeNode objects ever constructed, a reference is the  *)
(* 1-based position in heap, and 0 is the None reference.  Python lists    *)
(* are 0-based: versions[k] of the code is versions[k + 1] here.           *)
(***************************************************************************)
EXTENDS Integers, Sequences, FiniteSets, TLC

\* ---------------------------------------------------------------- bounds
MaxSize == 3          \* tree sizes explored: 1..MaxSize
MaxVersions == 3      \* direct tree updates stop at this many versions
MaxBranches == 2      \* tracker capacities (max_branches) explored: 1..MaxBranches
MaxBuildSize == 8     \* sizes handed to the constructor: -2..MaxBuildSize
RecursionLimit == 6   \* _build frames the interpreter allows (its recursion limit)
MaxTasks == 3         \* wrapped tool coroutines on the event loop

Values == {"A", "B"}          \* payloads stored by update / add_branch
ParamSet == {"p1", "p2"}      \* params dictionaries handed to add_branch
None == "None"                \* Python's None as a leaf value

VARIABLES
  size,             \* PersistentSegmentTree.size (== max_branches of the tracker)
  heap,             \* every node object constructed so far
  versions,         \* PersistentSegmentTree.versions: root reference per version
  branch_params,    \* FlightSearchBranchManager.branch_params
  current_version,  \* FlightSearchBranchManager.current_version
  next_idx,         \* FlightSearchBranchManager.next_idx
  ret,              \* the last call: op, integer and string arguments (iargs,
                    \* sargs), status, returned integer (rint, -1 if none)
                    \* and returned list (rlist)
  hist,             \* call log, one entry per version: how the version was made
  call,             \* the constructor's recursion: the stack of _build frames and
                    \* rv, the reference a frame has just returned (0 if none)
  tasks             \* the wrapped flight-tool coroutines: where each one is, the
                    \* order of their starts and completions, what each obtained

vars == <<size, heap, versions, branch_params, current_version, next_idx, ret, hist,
          call, tasks>>

Tasks == 1..MaxTasks

\* No constructor running, no coroutine started.
NoCall == [stack |-> <<>>, rv |-> 0]
NoTasks == [pc |-> [t \in Tasks |-> "idle"], params |-> [t \in Tasks |-> None],
            slot |-> [t \in Tasks |-> -1], version |-> [t \in Tasks |-> -1],
            started |-> <<>>, completed |-> <<>>]

\* ------------------------------------------------------- Python lists
\* lst[i] of a Python list of length n: valid for -n <= i < n, negative i
\* counts from the end; anything else raises IndexError.
PyIndexOK(n, i) == -n <= i /\ i < n
PyIndex(n, i) == IF i < 0 THEN i + n ELSE i

\* ---------------------------------------------------------------- nodes
PersistentSegmentTreeNode(left, right, value, left_child, right_child) ==
  [left |-> left, right |-> right, value |-> value,
   left_child |-> left_child, right_child |-> right_child]

\* Each recursive constructor returns the arena after its allocations and
\* the reference of the node it returns.
RECURSIVE _build(_, _, _)
_build(h, l, r) ==
  IF l = r
  THEN [heap |-> Append(h, PersistentSegmentTreeNode(l, r, None, 0, 0)),
        root |-> Len(h) + 1]
  ELSE LET m == (l + r) \div 2
           lc == _build(h, l, m)
           rc == _build(lc.heap, m + 1, r)
       IN [heap |-> Append(rc.heap,
                           PersistentSegmentTreeNode(l, r, None, lc.root, rc.root)),
           root |-> Len(rc.heap) + 1]

\* A plausible bug: the leaf is overwritten in place instead of copied.
RECURSIVE _update_inplace(_, _, _, _)
_update_inplace(h, node, idx, value) ==
  LET n == h[node] IN
  IF n.left = n.right
  THEN [heap |-> [h EXCEPT ![node].value = value], root |-> node]
  ELSE LET m == (n.left + n.right) \div 2 IN
       IF idx <= m
       THEN LET c == _update_inplace(h, n.left_child, idx, value) IN
            [heap |-> Append(c.heap,
                 PersistentSegmentTreeNode(n.left, n.right, n.value, c.root, n.right_child)),
             root |-> Len(c.heap) + 1]
       ELSE LET c == _update_inplace(h, n.right_child, idx, value) IN
            [heap |-> Append(c.heap,
                 PersistentSegmentTreeNode(n.left, n.right, n.value, n.left_child, c.root)),
             root |-> Len(c.heap) + 1]

\* A plausible bug: the descent compares with < instead of <=.
RECURSIVE _update_lt(_, _, _, _)
_update_lt(h, node, idx, value) ==
  LET n == h[node] IN
  IF n.left = n.right
  THEN [heap |-> Append(h, PersistentSegmentTreeNode(n.left, n.right, value, 0, 0)),
        root |-> Len(h) + 1]
  ELSE LET m == (n.left + n.right) \div 2 IN
       IF idx < m
       THEN LET c == _update_lt(h, n.left_child, idx, value) IN
            [heap |-> Append(c.heap,
                 PersistentSegmentTreeNode(n.left, n.right, n.value, c.root, n.right_child)),
             root |-> Len(c.heap) + 1]
       ELSE LET c == _update_lt(h, n.right_child, idx, value) IN
            [heap |-> Append(c.heap,
                 PersistentSegmentTreeNode(n.left, n.right, n.value, n.left_child, c.root)),
             root |-> Len(c.heap) + 1]

\* A plausible bug: the untouched sibling is copied (copy.copy) instead of
\* being shared by reference.
RECURSIVE _update_copy(_, _, _, _)
_update_copy(h, node, idx, value) ==
  LET n == h[node] IN
  IF n.left = n.right
  THEN [heap |-> Append(h, PersistentSegmentTreeNode(n.left, n.right, value, 0, 0)),
        root |-> Len(h) + 1]
  ELSE LET m == (n.left + n.right) \div 2 IN
       IF idx <= m
       THEN LET c == _update_copy(h, n.left_child, idx, value)
                h1 == Append(c.heap, h[n.right_child])
            IN [heap |-> Append(h1,
                 PersistentSegmentTreeNode(n.left, n.right, n.value, c.root, Len(h1))),
                root |-> Len(h1) + 1]
       ELSE LET c == _update_copy(h, n.right_child, idx, value)
                h1 == Append(c.heap, h[n.left_child])
            IN [heap |-> Append(h1,
                 PersistentSegmentTreeNode(n.left, n.right, n.value, Len(h1), c.root)),
                root |-> Len(h1) + 1]

RECURSIVE _update(_, _, _, _)
_update(h, node, idx, value) ==
  LET n == h[node] IN
  IF n.left = n.right
  THEN [heap |-> Append(h, PersistentSegmentTreeNode(n.left, n.right, value, 0, 0)),
        root |-> Len(h) + 1]
  ELSE LET m == (n.left + n.right) \div 2 IN
       IF idx <= m
       THEN LET c == _update(h, n.left_child, idx, value) IN
            [heap |-> Append(c.heap,
                 PersistentSegmentTreeNode(n.left, n.right, n.value, c.root, n.right_child)),
             root |-> Len(c.heap) + 1]
       ELSE LET c == _update(h, n.right_child, idx, value) IN
            [heap |-> Append(c.heap,
                 PersistentSegmentTreeNode(n.left, n.right, n.value, n.left_child, c.root)),
             root |-> Len(c.heap) + 1]

\* A plausible bug: the two halves are concatenated right before left.
RECURSIVE _query_swapped(_, _, _, _)
_query_swapped(h, node, l, r) ==
  LET n == h[node] IN
  IF n.right < l \/ n.left > r
  THEN <<>>
  ELSE IF l <= n.left /\ n.right <= r
       THEN IF n.left = n.right
            THEN <<n.value>>
            ELSE _query_swapped(h, n.right_child, l, r) \o _query_swapped(h, n.left_child, l, r)
       ELSE _query_swapped(h, n.right_child, l, r) \o _query_swapped(h, n.left_child, l, r)

RECURSIVE _query(_, _, _, _)
_query(h, node, l, r) ==
  LET n == h[node] IN
  IF n.right < l \/ n.left > r
  THEN <<>>
  ELSE IF l <= n.left /\ n.right <= r
       THEN IF n.left = n.right
            THEN <<n.value>>
            ELSE _query(h, n.left_child, l, r) \o _query(h, n.right_child, l, r)
       ELSE _query(h, n.left_child, l, r) \o _query(h, n.right_child, l, r)

\* ------------------------------------------------ PersistentSegmentTree
\* A plausible bug: the new root is stored over the version updated
\* (self.versions[version] = new_root) instead of being appended.
update_overwrite(h, vs, version, idx, value) ==
  IF ~PyIndexOK(Len(vs), version)
  THEN [status |-> "IndexError", heap |-> h, versions |-> vs, rint |-> -1]
  ELSE LET u == _update(h, vs[PyIndex(Len(vs), version) + 1], idx, value)
           nvs == [vs EXCEPT ![PyIndex(Len(vs), version) + 1] = u.root]
       IN [status |-> "ok", heap |-> u.heap, versions |-> nvs,
           rint |-> Len(nvs) - 1]

\* update: versions[version] is evaluated first (IndexError leaves the tree
\* as it was), then the path is copied and the new root appended.
update(h, vs, version, idx, value) ==
  IF ~PyIndexOK(Len(vs), version)
  THEN [status |-> "IndexError", heap |-> h, versions |-> vs, rint |-> -1]
  ELSE LET u == _update(h, vs[PyIndex(Len(vs), version) + 1], idx, value)
           nvs == Append(vs, u.root)
       IN [status |-> "ok", heap |-> u.heap, versions |-> nvs,
           rint |-> Len(nvs) - 1]

\* A plausible bug: a reversed range is put in order instead of being
\* left empty.
query_normalised(h, vs, version, l, r) ==
  IF ~PyIndexOK(Len(vs), version)
  THEN [status |-> "IndexError", rlist |-> <<>>]
  ELSE [status |-> "ok",
        rlist |-> _query(h, vs[PyIndex(Len(vs), version) + 1],
                         IF l <= r THEN l ELSE r, IF l <= r THEN r ELSE l)]

query(h, vs, version, l, r) ==
  IF ~PyIndexOK(Len(vs), version)
  THEN [status |-> "IndexError", rlist |-> <<>>]
  ELSE [status |-> "ok",
        rlist |-> _query(h, vs[PyIndex(Len(vs), version) + 1], l, r)]

\* -------------------------------------------- FlightSearchBranchManager
\* A params dictionary and a result are opaque values; an Optional is a
\* sequence of length 0 (None) or 1.  from_version is an Optional version id.
BranchRecord(params, result) == [params |-> params, result |-> result]

\* A plausible bug: the explicit from_version is ignored.
add_branch_ignore_from(h, vs, bp, cv, ni, params, result, from_version) ==
  LET idx == ni IN
  IF ~PyIndexOK(Len(bp), idx)
  THEN [status |-> "IndexError", heap |-> h, versions |-> vs, branch_params |-> bp,
        current_version |-> cv, next_idx |-> ni, rint |-> -1]
  ELSE LET bp1 == [bp EXCEPT ![PyIndex(Len(bp), idx) + 1] = <<BranchRecord(params, result)>>]
           u == update(h, vs, cv, idx, result)
       IN IF u.status # "ok"
          THEN [status |-> u.status, heap |-> h, versions |-> vs, branch_params |-> bp1,
                current_version |-> cv, next_idx |-> ni, rint |-> -1]
          ELSE [status |-> "ok", heap |-> u.heap, versions |-> u.versions,
                branch_params |-> bp1, current_version |-> u.rint,
                next_idx |-> ni + 1, rint |-> u.rint]

\* A plausible bug: the slot map does not bound the slot index (a dict in
\* place of the preallocated list), so a full tracker goes on to update.
add_branch_nocap(h, vs, bp, cv, ni, params, result, from_version) ==
  LET idx == ni
      bp1 == IF PyIndexOK(Len(bp), idx)
             THEN [bp EXCEPT ![PyIndex(Len(bp), idx) + 1] = <<BranchRecord(params, result)>>]
             ELSE bp
      fv == IF from_version = <<>> THEN cv ELSE from_version[1]
      u == update(h, vs, fv, idx, result)
  IN IF u.status # "ok"
     THEN [status |-> u.status, heap |-> h, versions |-> vs, branch_params |-> bp1,
           current_version |-> cv, next_idx |-> ni, rint |-> -1]
     ELSE [status |-> "ok", heap |-> u.heap, versions |-> u.versions,
           branch_params |-> bp1, current_version |-> u.rint,
           next_idx |-> ni + 1, rint |-> u.rint]

\* A plausible bug: next_idx is not advanced.
add_branch_noinc(h, vs, bp, cv, ni, params, result, from_version) ==
  LET idx == ni IN
  IF ~PyIndexOK(Len(bp), idx)
  THEN [status |-> "IndexError", heap |-> h, versions |-> vs, branch_params |-> bp,
        current_version |-> cv, next_idx |-> ni, rint |-> -1]
  ELSE LET bp1 == [bp EXCEPT ![PyIndex(Len(bp), idx) + 1] = <<BranchRecord(params, result)>>]
           fv == IF from_version = <<>> THEN cv ELSE from_version[1]
           u == update(h, vs, fv, idx, result)
       IN IF u.status # "ok"
          THEN [status |-> u.status, heap |-> h, versions |-> vs, branch_params |-> bp1,
                current_version |-> cv, next_idx |-> ni, rint |-> -1]
          ELSE [status |-> "ok", heap |-> u.heap, versions |-> u.versions,
                branch_params |-> bp1, current_version |-> u.rint,
                next_idx |-> ni, rint |-> u.rint]

\* A plausible bug: current_version is not moved to the new version.
add_branch_nocursor(h, vs, bp, cv, ni, params, result, from_version) ==
  LET idx == ni IN
  IF ~PyIndexOK(Len(bp), idx)
  THEN [status |-> "IndexError", heap |-> h, versions |-> vs, branch_params |-> bp,
        current_version |-> cv, next_idx |-> ni, rint |-> -1]
  ELSE LET bp1 == [bp EXCEPT ![PyIndex(Len(bp), idx) + 1] = <<BranchRecord(params, result)>>]
           fv == IF from_version = <<>> THEN cv ELSE from_version[1]
           u == update(h, vs, fv, idx, result)
       IN IF u.status # "ok"
          THEN [status |-> u.status, heap |-> h, versions |-> vs, branch_params |-> bp1,
                current_version |-> cv, next_idx |-> ni, rint |-> -1]
          ELSE [status |-> "ok", heap |-> u.heap, versions |-> u.versions,
                branch_params |-> bp1, current_version |-> cv,
                next_idx |-> ni + 1, rint |-> u.rint]

\* add_branch, statement by statement: line 90 stores the record (IndexError
\* when idx is no position of the list, before anything is changed), line 93
\* calls update (IndexError when from_version is no position of versions,
\* after the record was stored), lines 94-96 advance the counters.
add_branch(h, vs, bp, cv, ni, params, result, from_version) ==
  LET idx == ni IN
  IF ~PyIndexOK(Len(bp), idx)
  THEN [status |-> "IndexError", heap |-> h, versions |-> vs, branch_params |-> bp,
        current_version |-> cv, next_idx |-> ni, rint |-> -1]
  ELSE LET bp1 == [bp EXCEPT ![PyIndex(Len(bp), idx) + 1] = <<BranchRecord(params, result)>>]
           fv == IF from_version = <<>> THEN cv ELSE from_version[1]
           u == update(h, vs, fv, idx, result)
       IN IF u.status # "ok"
          THEN [status |-> u.status, heap |-> h, versions |-> vs, branch_params |-> bp1,
                current_version |-> cv, next_idx |-> ni, rint |-> -1]
          ELSE [status |-> "ok", heap |-> u.heap, versions |-> u.versions,
                branch_params |-> bp1, current_version |-> u.rint,
                next_idx |-> ni + 1, rint |-> u.rint]

\* get_branch_result: element 0 of the point query's list (IndexError when
\* the list is empty).
get_branch_result(h, vs, version, idx) ==
  LET q == query(h, vs, version, idx, idx) IN
  IF q.status # "ok" THEN [status |-> q.status, rlist |-> <<>>]
  ELSE IF ~PyIndexOK(Len(q.rlist), 0) THEN [status |-> "IndexError", rlist |-> <<>>]
  ELSE [status |-> "ok", rlist |-> <<q.rlist[PyIndex(Len(q.rlist), 0) + 1]>>]

get_all_results(h, vs, ni, version) == query(h, vs, version, 0, ni - 1)

\* ---------------------------------------------------------------- Init
\* flight_branch_manager = FlightSearchBranchManager(max_branches): the
\* tree is built with size max_branches, every slot record is None.
InitSized(n) ==
    LET b == _build(<<>>, 0, n - 1) IN
    /\ size = n
    /\ heap = b.heap
    /\ versions = <<b.root>>
    /\ branch_params = [k \in 1..n |-> <<>>]
    /\ current_version = 0
    /\ next_idx = 0
    /\ ret = [op |-> "init", iargs |-> <<>>, sargs |-> <<>>, status |-> "ok",
              rint |-> -1, rlist |-> <<>>]
    /\ hist = <<[parent |-> -1, idx |-> -1, value |-> None, slots |-> 0]>>
    /\ call = NoCall
    /\ tasks = NoTasks

Init == \E n \in 1..MaxSize : InitSized(n)

InitMgr == \E n \in 1..MaxBranches : InitSized(n)

\* ------------------------------------------------------------- actions
\* Version ids handed in: every existing id, the first id past the end, -1
\* (the last version, by Python's wrap-around) and the first id before
\* -len(versions).
VersionArgs == (0..Len(versions)) \cup {-1, -(Len(versions) + 1)}
IndexArgs == -1..size

\* tree.update(version, idx, value) called directly on the tree.
Update(version, idx, value) ==
  /\ Len(versions) < MaxVersions
  /\ LET u == update(heap, versions, version, idx, value) IN
     /\ heap' = u.heap
     /\ versions' = u.versions
     /\ ret' = [op |-> "update", iargs |-> <<version, idx>>, sargs |-> <<value>>,
                status |-> u.status, rint |-> u.rint, rlist |-> <<>>]
     /\ hist' = IF u.status = "ok"
                THEN Append(hist, [parent |-> PyIndex(Len(versions), version),
                                   idx |-> idx, value |-> value, slots |-> next_idx])
                ELSE hist
  /\ UNCHANGED <<size, branch_params, current_version, next_idx, call, tasks>>

\* tree.query(version, l, r).
Query(version, l, r) ==
  /\ LET q == query(heap, versions, version, l, r) IN
     ret' = [op |-> "query", iargs |-> <<version, l, r>>, sargs |-> <<>>,
             status |-> q.status, rint |-> -1, rlist |-> q.rlist]
  /\ UNCHANGED <<size, heap, versions, branch_params, current_version, next_idx, hist,
                 call, tasks>>

Next ==
  \/ \E version \in VersionArgs, idx \in IndexArgs, value \in Values :
       Update(version, idx, value)
  \/ \E version \in VersionArgs, l \in IndexArgs, r \in IndexArgs :
       Query(version, l, r)

\* The tree's whole interface: update and query.
Spec == Init /\ [][Next]_vars

\* The tree under updates alone (query changes nothing of the tree).
NextUpdate ==
  \E version \in VersionArgs, idx \in IndexArgs, value \in Values :
    Update(version, idx, value)

SpecUpdate == Init /\ [][NextUpdate]_vars

\* ---------------------------------------------------- tracker actions
FromVersionArgs == {<<>>} \cup {<<v>> : v \in VersionArgs}

\* flight_branch_manager.add_branch(params, result, from_version).  The call
\* log records the new version's parent, the slot written and the number
\* of slots allocated once the call has returned.
AddBranchCall(params, result, from_version) ==
  /\ LET a == add_branch(heap, versions, branch_params, current_version, next_idx,
                         params, result, from_version)
         fv == IF from_version = <<>> THEN current_version ELSE from_version[1]
     IN
     /\ heap' = a.heap
     /\ versions' = a.versions
     /\ branch_params' = a.branch_params
     /\ current_version' = a.current_version
     /\ next_idx' = a.next_idx
     /\ ret' = [op |-> "add_branch", iargs |-> from_version, sargs |-> <<params, result>>,
                status |-> a.status, rint |-> a.rint, rlist |-> <<>>]
     /\ hist' = IF a.status = "ok"
                THEN Append(hist, [parent |-> PyIndex(Len(versions), fv), idx |-> next_idx,
                                   value |-> result, slots |-> a.next_idx])
                ELSE hist
  /\ UNCHANGED <<size, call>>

\* add_branch called by anything but a wrapped tool coroutine.
AddBranch(params, result, from_version) ==
  /\ AddBranchCall(params, result, from_version)
  /\ UNCHANGED tasks

GetBranchResult(version, idx) ==
  /\ LET g == get_branch_result(heap, versions, version, idx) IN
     ret' = [op |-> "get_branch_result", iargs |-> <<version, idx>>, sargs |-> <<>>,
             status |-> g.status, rint |-> -1, rlist |-> g.rlist]
  /\ UNCHANGED <<size, heap, versions, branch_params, current_version, next_idx, hist,
                 call, tasks>>

GetAllResults(version) ==
  /\ LET g == get_all_results(heap, versions, next_idx, version) IN
     ret' = [op |-> "get_all_results", iargs |-> <<version>>, sargs |-> <<>>,
             status |-> g.status, rint |-> -1, rlist |-> g.rlist]
  /\ UNCHANGED <<size, heap, versions, branch_params, current_version, next_idx, hist,
                 call, tasks>>

\* The tracker's whole interface.
NextMgr ==
  \/ \E params \in ParamSet, result \in Values, from_version \in FromVersionArgs :
       AddBranch(params, result, from_version)
  \/ \E version \in VersionArgs, idx \in IndexArgs : GetBranchResult(version, idx)
  \/ \E version \in VersionArgs : GetAllResults(version)

SpecMgr == InitMgr /\ [][NextMgr]_vars

\* The tracker under add_branch alone (the getters change nothing of it).
NextBranch ==
  \E params \in ParamSet, result \in Values, from_version \in FromVersionArgs :
    AddBranch(params, result, from_version)

SpecBranch == InitMgr /\ [][NextBranch]_vars

\* ------------------------------------------------------ the constructor
\* PersistentSegmentTree(size), one call or return of _build per step.  A
\* frame is a call _build(l, r): pc is "call" when it has just been entered,
\* "left" while its first recursive call runs, "right" while its second one
\* runs; lc keeps the left child once it is back.
Frame(l, r) == [l |-> l, r |-> r, pc |-> "call", lc |-> 0]

BuildSizes == (-2)..MaxBuildSize

\* Before the constructor runs: no node, no version, no tracker field yet.
InitNew ==
  \E n \in BuildSizes :
    /\ size = n
    /\ heap = <<>>
    /\ versions = <<>>
    /\ branch_params = <<>>
    /\ current_version = 0
    /\ next_idx = 0
    /\ ret = [op |-> "init", iargs |-> <<>>, sargs |-> <<>>, status |-> "new",
              rint |-> -1, rlist |-> <<>>]
    /\ hist = <<>>
    /\ call = NoCall
    /\ tasks = NoTasks

\* A call of _build from a stack of d frames: past the recursion limit the
\* interpreter raises RecursionError, which no frame catches.
Push(stack, frame) ==
  IF Len(stack) >= RecursionLimit
  THEN [status |-> "RecursionError", stack |-> <<>>]
  ELSE [status |-> "running", stack |-> Append(stack, frame)]

Pop(stack) == SubSeq(stack, 1, Len(stack) - 1)

\* Lines 39-41: the fields are set and _build(0, size - 1) is called; size is
\* not looked at.
Construct ==
  /\ ret.status = "new"
  /\ ret' = [ret EXCEPT !.status = "running"]
  /\ call' = [stack |-> <<Frame(0, size - 1)>>, rv |-> 0]
  /\ UNCHANGED <<size, heap, versions, branch_params, current_version, next_idx, hist,
                 tasks>>

\* Lines 44-47: the frame just entered makes a leaf and returns it, or
\* calls _build(l, m).
BuildCall ==
  /\ ret.status = "running"
  /\ call.rv = 0
  /\ call.stack # <<>>
  /\ LET f == call.stack[Len(call.stack)] IN
     /\ f.pc = "call"
     /\ IF f.l = f.r
        THEN /\ heap' = Append(heap, PersistentSegmentTreeNode(f.l, f.r, None, 0, 0))
             /\ call' = [stack |-> Pop(call.stack), rv |-> Len(heap) + 1]
             /\ ret' = ret
        ELSE LET m == (f.l + f.r) \div 2
                 p == Push([call.stack EXCEPT ![Len(call.stack)].pc = "left"],
                           Frame(f.l, m))
             IN /\ heap' = heap
                /\ call' = [stack |-> p.stack, rv |-> 0]
                /\ ret' = [ret EXCEPT !.status = p.status]
  /\ UNCHANGED <<size, versions, branch_params, current_version, next_idx, hist, tasks>>

\* A frame has returned a node: the frame waiting for its left child calls
\* _build(m + 1, r) (line 48); the one waiting for its right child makes the
\* internal node and returns it (line 49); with no frame left the
\* constructor appends the root as version 0 (line 41) and the tracker sets
\* its own fields (lines 84-86).
BuildReturn ==
  /\ ret.status = "running"
  /\ call.rv # 0
  /\ IF call.stack = <<>>
     THEN /\ versions' = Append(versions, call.rv)
          /\ branch_params' = [k \in 1..size |-> <<>>]
          /\ current_version' = 0
          /\ next_idx' = 0
          /\ hist' = <<[parent |-> -1, idx |-> -1, value |-> None, slots |-> 0]>>
          /\ ret' = [ret EXCEPT !.status = "ok"]
          /\ call' = NoCall
          /\ heap' = heap
     ELSE LET f == call.stack[Len(call.stack)]
              m == (f.l + f.r) \div 2
          IN /\ IF f.pc = "left"
                THEN LET p == Push([call.stack EXCEPT ![Len(call.stack)].pc = "right",
                                                      ![Len(call.stack)].lc = call.rv],
                                   Frame(m + 1, f.r))
                     IN /\ heap' = heap
                        /\ call' = [stack |-> p.stack, rv |-> 0]
                        /\ ret' = [ret EXCEPT !.status = p.status]
                ELSE /\ heap' = Append(heap,
                            PersistentSegmentTreeNode(f.l, f.r, None, f.lc, call.rv))
                     /\ call' = [stack |-> Pop(call.stack), rv |-> Len(heap) + 1]
                     /\ ret' = ret
             /\ UNCHANGED <<versions, branch_params, current_version, next_idx, hist>>
  /\ UNCHANGED <<size, tasks>>

NextBuild == Construct \/ BuildCall \/ BuildReturn

SpecBuild == InitNew /\ [][NextBuild]_vars

\* ------------------------------------------- wrapped tool coroutines
\* wrapped(*args, **kwargs) of wrap_flight_tool, run as coroutines of one
\* event loop on the one flight_branch_manager.  A coroutine is suspended
\* only at its await (line 127); everything between two awaits is one step.

\* Lines 119-127: the coroutine collects params, calls the tool and is
\* suspended until the tool's result is there.
Start(t, params) ==
  /\ tasks.pc[t] = "idle"
  /\ tasks' = [tasks EXCEPT !.pc[t] = "awaiting", !.params[t] = params,
                            !.started = Append(@, t)]
  /\ UNCHANGED <<size, heap, versions, branch_params, current_version, next_idx, ret,
                 hist, call>>

\* Lines 127-130: the tool's result arrives, the coroutine is resumed and
\* runs add_branch(params, result) to its end (add_branch has no await);
\* an exception of add_branch ends the coroutine.
ToolReturns(t, result) ==
  /\ tasks.pc[t] = "awaiting"
  /\ AddBranchCall(tasks.params[t], result, <<>>)
  /\ tasks' = [tasks EXCEPT
                 !.pc[t] = IF ret'.status = "ok" THEN "done" ELSE "failed",
                 !.slot[t] = IF ret'.status = "ok" THEN next_idx ELSE -1,
                 !.version[t] = ret'.rint,
                 !.completed = Append(@, t)]

\* Line 127: the tool raises; add_branch is not reached.
ToolRaises(t) ==
  /\ tasks.pc[t] = "awaiting"
  /\ tasks' = [tasks EXCEPT !.pc[t] = "failed"]
  /\ UNCHANGED <<size, heap, versions, branch_params, current_version, next_idx, ret,
                 hist, call>>

NextAsync ==
  \/ \E t \in Tasks, params \in ParamSet : Start(t, params)
  \/ \E t \in Tasks, result \in Values : ToolReturns(t, result)
  \/ \E t \in Tasks : ToolRaises(t)

SpecAsync == InitMgr /\ [][NextAsync]_vars

\* ------------------------------------------------------------- helpers
ValidVersions == 0..(Len(versions) - 1)
ValidIndices == 0..(size - 1)

\* Reference model of a leaf: walk the call log from version v back to
\* version 0 and take the value of the first update found that targeted i.
RECURSIVE RefLeaf(_, _)
RefLeaf(v, i) ==
  IF v = 0 THEN None
  ELSE IF hist[v + 1].idx = i THEN hist[v + 1].value
       ELSE RefLeaf(hist[v + 1].parent, i)

\* ---------------------------------------------------------------- C1
\* C1: persistence.  No step changes what query(v, i, i) returns for a
\* version v that already exists and an index i of the tree.
C1_Persistence ==
  [][\A v \in ValidVersions, i \in ValidIndices :
       query(heap', versions', v, i, i) = query(heap, versions, v, i, i)]_vars

\* Two updates of the same index with different values, the second one
\* forked from version 0: version 1 still reports the first value.
C1_Witness ==
  /\ Len(versions) >= 3
  /\ hist[3].parent = 0
  /\ hist[2].idx = hist[3].idx
  /\ hist[2].idx \in ValidIndices
  /\ hist[2].value # hist[3].value
  /\ query(heap, versions, 1, hist[2].idx, hist[2].idx).rlist = <<hist[2].value>>
  /\ query(heap, versions, 2, hist[2].idx, hist[2].idx).rlist = <<hist[3].value>>

\* ---------------------------------------------------------------- C2
\* C2: leaf values against the reference model.  In every version v and
\* for every index i of the tree, query(v, i, i) is [unset] when no update
\* on the parent chain of v targeted i, and [x] for the most recent such
\* update's value x otherwise.
C2_LeafSemantics ==
  \A v \in ValidVersions, i \in ValidIndices :
    query(heap, versions, v, i, i).rlist = <<RefLeaf(v, i)>>

\* The same statement for the versions whose whole parent chain was made by
\* updates with 0 <= idx < size.
RECURSIVE ChainInRange(_)
ChainInRange(v) ==
  v = 0 \/ (hist[v + 1].idx \in ValidIndices /\ ChainInRange(hist[v + 1].parent))

C2_LeafSemanticsInRange ==
  \A v \in ValidVersions, i \in ValidIndices :
    ChainInRange(v) => query(heap, versions, v, i, i).rlist = <<RefLeaf(v, i)>>

\* ---------------------------------------------------------------- C3
\* C3: point round trip.  update(v, idx, x) with v an existing version id
\* and 0 <= idx < size returns v' with query(v', idx, idx) == [x].
C3_PointRoundTrip ==
  [][\A version \in ValidVersions, idx \in ValidIndices, value \in Values :
       Update(version, idx, value)
         => /\ ret'.status = "ok"
            /\ query(heap', versions', ret'.rint, idx, idx)
                 = [status |-> "ok", rlist |-> <<value>>]]_vars

\* An update that overwrites: the parent version already held another
\* value at the index.
C3_Witness ==
  /\ ret.op = "update" /\ ret.status = "ok"
  /\ ret.iargs[1] \in 0..(Len(versions) - 2)
  /\ ret.iargs[2] \in ValidIndices
  /\ query(heap, versions, ret.iargs[1], ret.iargs[2], ret.iargs[2]).rlist
       \notin {<<None>>, ret.sargs}
  /\ query(heap, versions, ret.rint, ret.iargs[2], ret.iargs[2]).rlist = ret.sargs

\* ---------------------------------------------------------------- C4
\* C4: update with idx outside [0, size-1] fails and appends no version:
\* the version sequence and the node arena are as before the call.
C4_IndexOutOfRange ==
  [][\A version \in ValidVersions, idx \in IndexArgs \ ValidIndices, value \in Values :
       Update(version, idx, value)
         => ret'.status # "ok" /\ versions' = versions /\ heap' = heap]_vars

\* ---------------------------------------------------------------- C5
\* C5: update and query with a version id outside [0, len(versions)),
\* negative ids included, fail; the failing update appends no version.
C5_InvalidVersion ==
  [][\A version \in VersionArgs \ ValidVersions :
       /\ \A idx \in ValidIndices, value \in Values :
            Update(version, idx, value)
              => ret'.status # "ok" /\ versions' = versions
       /\ \A l \in IndexArgs, r \in IndexArgs :
            Query(version, l, r) => ret'.status # "ok"]_vars

\* ---------------------------------------------------------------- C6
\* C6: snapshot scoping.  get_all_results(v) of an existing version v
\* returns as many entries as there were slots allocated when v was
\* created (the call log's slots), however many slots exist now.
C6_SnapshotScoping ==
  (/\ ret.op = "get_all_results"
   /\ ret.iargs[1] \in ValidVersions)
  => /\ ret.status = "ok"
     /\ Len(ret.rlist) = hist[ret.iargs[1] + 1].slots

\* ---------------------------------------------------------------- C7
\* The scenario's state: max_branches = 2, a first add_branch made version
\* 1 from version 0 in slot 0, and the call that has just returned is
\* add_branch(p2, r2, from_version=0).
ForkScenario ==
  /\ size = 2
  /\ Len(versions) = 3
  /\ hist[2].parent = 0 /\ hist[2].idx = 0
  /\ ret.op = "add_branch" /\ ret.status = "ok" /\ ret.iargs = <<0>>
  /\ ret.sargs[2] # hist[2].value

\* C7 as stated: the fork from version 0 produces a version whose slot 0
\* holds r2, while version 1's slot 0 still holds r1.
C7_ForkScenario_Original ==
  ForkScenario
  => /\ get_branch_result(heap, versions, ret.rint, 0).rlist = <<ret.sargs[2]>>
     /\ get_branch_result(heap, versions, 1, 0).rlist = <<hist[2].value>>

\* C7 as amended: the fork is version 2, made from version 0; r2 is in slot
\* 1 (the next free slot), slot 0 of version 2 is unset, and version 1
\* still holds r1 in slot 0 and nothing in slot 1.
C7_ForkScenario ==
  ForkScenario
  => /\ ret.rint = 2
     /\ hist[3].parent = 0
     /\ get_branch_result(heap, versions, 2, 1).rlist = <<ret.sargs[2]>>
     /\ get_branch_result(heap, versions, 2, 0).rlist = <<None>>
     /\ get_branch_result(heap, versions, 1, 0).rlist = <<hist[2].value>>
     /\ get_branch_result(heap, versions, 1, 1).rlist = <<None>>

C7_Witness ==
  /\ ForkScenario
  /\ hist[2].value = "A"
  /\ ret.sargs = <<"p2", "B">>
  /\ branch_params = <<<<BranchRecord("p1", "A")>>, <<BranchRecord("p2", "B")>>>>

\* ---------------------------------------------------------------- C8
\* C8: capacity.  add_branch called when next_idx == max_branches fails and
\* changes nothing: next_idx, current_version, the slot map, the version
\* sequence and the node arena stay as they were.
C8_Capacity ==
  [][\A params \in ParamSet, result \in Values, from_version \in FromVersionArgs :
       (next_idx = size /\ AddBranch(params, result, from_version))
         => /\ ret'.status # "ok"
            /\ UNCHANGED <<next_idx, current_version, branch_params, versions, heap>>]_vars

\* A call on a full tracker has failed.
C8_Witness ==
  /\ next_idx = size
  /\ Len(versions) = size + 1
  /\ ret.op = "add_branch" /\ ret.status = "IndexError"
  /\ ret.iargs = <<>>

\* ---------------------------------------------------------------- C9
\* C9: a failed add_branch, in particular one whose from_version does not
\* exist while a slot is still free, leaves the slot map, next_idx,
\* current_version and the version sequence as they were.
C9_FailedAddBranch ==
  [][\A params \in ParamSet, result \in Values,
        from_version \in {<<>>} \cup {<<v>> : v \in 0..Len(versions)} :
       (AddBranch(params, result, from_version) /\ ret'.status # "ok")
         => UNCHANGED <<branch_params, next_idx, current_version, versions>>]_vars

\* --------------------------------------------------------------- C10
\* C10: a successful add_branch(params, result, from_version) uses slot
\* s = old next_idx, stores {params, result} at branch_params[s] and nothing
\* else, advances next_idx by one, appends exactly the version that
\* update(from_version or old current_version, s, result) makes (the parent's
\* leaves with leaf s replaced by result), sets current_version to the new
\* id and returns it, and get_branch_result(returned, s) is result.
C10_AddBranchEffect ==
  [][\A params \in ParamSet, result \in Values, from_version \in FromVersionArgs :
       (AddBranch(params, result, from_version) /\ ret'.status = "ok")
         => LET s == next_idx
                fv == IF from_version = <<>> THEN current_version ELSE from_version[1]
                parent == IF fv < 0 THEN fv + Len(versions) ELSE fv
                new == Len(versions)
            IN /\ s \in ValidIndices
               /\ branch_params' = [branch_params EXCEPT ![s + 1] =
                                       <<[params |-> params, result |-> result]>>]
               /\ next_idx' = next_idx + 1
               /\ Len(versions') = Len(versions) + 1
               /\ SubSeq(versions', 1, Len(versions)) = versions
               /\ parent \in ValidVersions
               /\ \A i \in ValidIndices :
                    query(heap', versions', new, i, i).rlist =
                      IF i = s THEN <<result>>
                      ELSE query(heap, versions, parent, i, i).rlist
               /\ current_version' = new
               /\ ret'.rint = new
               /\ get_branch_result(heap', versions', ret'.rint, s)
                    = [status |-> "ok", rlist |-> <<result>>]]_vars

\* A successful fork from a version older than the current one, into slot 1.
C10_Witness ==
  /\ ret.op = "add_branch" /\ ret.status = "ok"
  /\ next_idx = 2
  /\ ret.iargs = <<0>>
  /\ hist[3].parent = 0
  /\ current_version = 2
  /\ get_branch_result(heap, versions, 2, 1).rlist = <<ret.sargs[2]>>

\* --------------------------------------------------------------- C11
\* C11: get_branch_result(version, idx) on an existing version has three
\* outcomes: for an allocated slot (idx < next_idx) the value written on the
\* path to the version, or the unset result if none was; for an idx no
\* add_branch ever allocated, NotFound -- a failure, never the unset
\* sentinel returned as a value.
C11_ThreeOutcomes ==
  (/\ ret.op = "get_branch_result"
   /\ ret.iargs[1] \in ValidVersions)
  => IF ret.iargs[2] \in 0..(next_idx - 1)
     THEN /\ ret.status = "ok"
          /\ ret.rlist = <<RefLeaf(ret.iargs[1], ret.iargs[2])>>
     ELSE ret.status # "ok"

\* --------------------------------------------------------------- C12
\* C12: version ids are dense and append-only.  The tree starts with
\* exactly version 0; every step keeps the versions there are, in place;
\* a successful update appends one version and returns the number of
\* versions there were before the call; a failed one appends nothing.
C12_DenseAppendOnly ==
  /\ Len(versions) = 1
  /\ [][/\ Len(versions') >= Len(versions)
        /\ SubSeq(versions', 1, Len(versions)) = versions
        /\ \A version \in VersionArgs, idx \in IndexArgs, value \in Values :
             Update(version, idx, value)
               => IF ret'.status = "ok"
                  THEN /\ ret'.rint = Len(versions)
                       /\ Len(versions') = Len(versions) + 1
                  ELSE versions' = versions]_vars

\* A second update, forked from version 0, has returned id 2.
C12_Witness ==
  /\ ret.op = "update" /\ ret.status = "ok"
  /\ ret.iargs[1] = 0
  /\ ret.rint = 2
  /\ Len(versions) = 3

\* --------------------------------------------------------------- C13
\* C13: in every state of the tracker current_version is the id of the
\* version created last: current_version == len(tree.versions) - 1.
C13_CursorAtLatest == current_version = Len(versions) - 1

\* The cursor after a fork from version 0 and a failed call.
C13_Witness ==
  /\ Len(versions) = 3
  /\ hist[3].parent = 0
  /\ current_version = 2
  /\ ret.op = "add_branch" /\ ret.status = "IndexError"

\* --------------------------------------------------------------- C18
\* C18: slot/version coupling.  In every state of the tracker next_idx ==
\* len(tree.versions) - 1, and for every k >= 1 version k was created by the
\* add_branch that wrote slot k-1, when k slots were allocated.
C18_SlotVersionCoupling ==
  /\ next_idx = Len(versions) - 1
  /\ Len(hist) = Len(versions)
  /\ \A k \in 1..(Len(versions) - 1) :
       /\ hist[k + 1].idx = k - 1
       /\ hist[k + 1].slots = k
       /\ query(heap, versions, k, k - 1, k - 1).rlist = <<hist[k + 1].value>>

\* Two versions made, the second forked from version 0, then a failed call.
C18_Witness ==
  /\ next_idx = 2
  /\ Len(versions) = 3
  /\ hist[3].parent = 0 /\ hist[3].idx = 1
  /\ ret.op = "add_branch" /\ ret.status # "ok"

\* --------------------------------------------------------------- C19
\* v is version k or an ancestor of k on the from_version chain.
RECURSIVE IsAncestorOrSelf(_, _)
IsAncestorOrSelf(v, k) ==
  \/ v = k
  \/ (k > 0 /\ IsAncestorOrSelf(v, hist[k + 1].parent))

\* Every add_branch so far was made from the version current at the time.
AllDefaultChain == \A k \in 1..(Len(versions) - 1) : hist[k + 1].parent = k - 1

\* C19: write-once slots along ancestry.  In every version k, slot j holds
\* branch_params[j].result exactly when version j+1 (the one that wrote
\* slot j) is k or an ancestor of k, and is unset otherwise; so
\* get_all_results(current_version) has unset entries exactly at the slots
\* forked away from, and is the results in call order when no call forked.
C19_WriteOnceSlots ==
  /\ \A k \in ValidVersions, j \in ValidIndices :
       get_branch_result(heap, versions, k, j).rlist =
         IF j + 1 \in ValidVersions /\ IsAncestorOrSelf(j + 1, k)
         THEN <<branch_params[j + 1][1].result>>
         ELSE <<None>>
  /\ LET all == get_all_results(heap, versions, next_idx, current_version).rlist IN
     /\ Len(all) = next_idx
     /\ \A j \in 0..(next_idx - 1) :
          all[j + 1] = IF IsAncestorOrSelf(j + 1, current_version)
                       THEN branch_params[j + 1][1].result
                       ELSE None
     /\ AllDefaultChain
          => all = [j \in 1..next_idx |-> branch_params[j][1].result]

\* After a fork from version 0 the current version lacks slot 0.
C19_Witness ==
  /\ Len(versions) = 3
  /\ hist[3].parent = 0
  /\ current_version = 2
  /\ get_all_results(heap, versions, next_idx, current_version).rlist = <<None, "B">>
  /\ get_all_results(heap, versions, next_idx, 1).rlist = <<"A", None>>

\* --------------------------------------------------------------- C14
\* The node objects reachable from node n.
RECURSIVE Reach(_, _)
Reach(h, n) ==
  IF n = 0 THEN {}
  ELSE {n} \cup Reach(h, h[n].left_child) \cup Reach(h, h[n].right_child)

\* The nodes under root whose range holds idx: the root-to-leaf path of idx.
PathNodes(h, root, idx) ==
  {n \in Reach(h, root) : h[n].left <= idx /\ idx <= h[n].right}

\* ceil(log2(n)) for n >= 1.
RECURSIVE CeilLog2(_)
CeilLog2(n) == IF n <= 1 THEN 0 ELSE 1 + CeilLog2((n + 1) \div 2)

\* What both statements of C14 say about sharing: no existing node is
\* changed, and the nodes reachable from the new root are the new nodes and
\* the very nodes of the old version that are off the path of idx.
Sharing(version, idx) ==
  LET old == versions[version + 1]
      new == versions'[Len(versions')]
  IN /\ SubSeq(heap', 1, Len(heap)) = heap
     /\ Reach(heap', new) =
          ((Len(heap) + 1)..Len(heap'))
            \cup (Reach(heap, old) \ PathNodes(heap, old, idx))

\* C14 as stated: an update of an index of a tree of size n creates exactly
\* ceil(log2(n)) + 1 nodes and shares every other node with the old version.
C14_Sharing_Original ==
  [][\A version \in ValidVersions, idx \in ValidIndices, value \in Values :
       Update(version, idx, value)
         => /\ Len(heap') - Len(heap) = CeilLog2(size) + 1
            /\ Sharing(version, idx)]_vars

\* C14 as amended: the update creates exactly one node per node on the
\* root-to-leaf path of idx, which is ceil(log2(n)) or ceil(log2(n)) + 1
\* nodes, and shares every other node with the old version.
C14_Sharing ==
  [][\A version \in ValidVersions, idx \in ValidIndices, value \in Values :
       Update(version, idx, value)
         => /\ Len(heap') - Len(heap)
                 = Cardinality(PathNodes(heap, versions[version + 1], idx))
            /\ Len(heap') - Len(heap) \in {CeilLog2(size), CeilLog2(size) + 1}
            /\ Sharing(version, idx)]_vars

\* A size-3 tree whose index 2 was updated: two new nodes, not three.
C14_Witness ==
  /\ size = 3
  /\ ret.op = "update" /\ ret.status = "ok" /\ ret.iargs = <<0, 2>>
  /\ Len(versions) = 2
  /\ Len(heap) = 5 + 2
  /\ heap[versions[2]].left_child = heap[versions[1]].left_child

\* --------------------------------------------------------------- C15
\* Range bounds tried: inside, on and beyond both ends of [0, size-1].
RangeArgs == -2..(size + 1)

\* The value of leaf i of a version, read off the leaf node itself.
LeafValue(h, root, i) ==
  h[CHOOSE n \in Reach(h, root) : h[n].left = i /\ h[n].right = i].value

\* C15: for every existing version v and l <= r, query(v, l, r) succeeds and
\* returns one entry per leaf index of [l, r] within [0, size-1], in
\* ascending index order, each the leaf's value in v (None if unset).
C15_RangeQuery ==
  \A v \in ValidVersions, l \in RangeArgs, r \in RangeArgs :
    l <= r =>
      LET lo == IF l < 0 THEN 0 ELSE l
          hi == IF r > size - 1 THEN size - 1 ELSE r
      IN query(heap, versions, v, l, r) =
           [status |-> "ok",
            rlist |-> [k \in 1..(hi - lo + 1) |->
                         LeafValue(heap, versions[v + 1], lo + k - 1)]]

\* A version with set and unset leaves, queried over a range that sticks out
\* at both ends.
C15_Witness ==
  /\ size = 3
  /\ Len(versions) = 3
  /\ query(heap, versions, 2, -1, 3).rlist = <<"A", None, "B">>
  /\ query(heap, versions, 2, 1, 5).rlist = <<None, "B">>
  /\ query(heap, versions, 1, -1, 3).rlist = <<"A", None, None>>

\* --------------------------------------------------------------- C16
\* C16: for every existing version v and l > r, wherever l and r lie,
\* query(v, l, r) succeeds and returns the empty sequence.
C16_EmptyRange ==
  \A v \in ValidVersions, l \in RangeArgs, r \in RangeArgs :
    l > r => query(heap, versions, v, l, r) = [status |-> "ok", rlist |-> <<>>]

\* A version with every leaf set, where a reversed range inside the tree
\* still yields nothing.
C16_Witness ==
  /\ size = 2
  /\ Len(versions) = 3
  /\ query(heap, versions, 2, 0, 1).rlist = <<"A", "B">>
  /\ query(heap, versions, 2, 1, 0).rlist = <<>>

\* --------------------------------------------------------------- C17
\* The constructor has ended, by returning or by an exception.
Constructed == ret.op = "init" /\ ret.status \notin {"new", "running"}

\* C17: the constructor called with size < 1 ends by failing with a
\* configuration error (not by succeeding, and not by the interpreter
\* running out of stack) and leaves no tree; with size >= 1 it ends with
\* exactly one version whose leaves 0..size-1 are all unset.
C17_Build ==
  Constructed =>
    IF size < 1
    THEN /\ ret.status \notin {"ok", "RecursionError"}
         /\ versions = <<>>
    ELSE /\ ret.status = "ok"
         /\ Len(versions) = 1
         /\ query(heap, versions, 0, 0, size - 1).rlist = [k \in 1..size |-> None]

\* The half of C17 about size >= 1, and the constructor agreeing with Init.
C17_BuildValid ==
  (Constructed /\ size >= 1)
    => /\ ret.status = "ok"
       /\ Len(versions) = 1
       /\ query(heap, versions, 0, 0, size - 1).rlist = [k \in 1..size |-> None]
       /\ InitSized(size)

\* --------------------------------------------------------------- C20
\* The coroutines whose add_branch returned, in the order of their tools'
\* completions.
RECURSIVE DoneInOrder(_)
DoneInOrder(seq) ==
  IF seq = <<>> THEN <<>>
  ELSE IF tasks.pc[seq[1]] = "done"
       THEN <<seq[1]>> \o DoneInOrder(Tail(seq))
       ELSE DoneInOrder(Tail(seq))

\* C20: under every interleaving no two wrapped calls obtain the same slot
\* or the same new version id, and the k-th call whose tool completed (and
\* whose add_branch returned) has slot k-1 and version k, whatever the
\* order in which the calls were started.
C20_Interleaving ==
  LET done == DoneInOrder(tasks.completed) IN
  /\ \A t \in Tasks, u \in Tasks :
       (t # u /\ tasks.pc[t] = "done" /\ tasks.pc[u] = "done")
         => /\ tasks.slot[t] # tasks.slot[u]
            /\ tasks.version[t] # tasks.version[u]
  /\ \A k \in 1..Len(done) :
       /\ tasks.slot[done[k]] = k - 1
       /\ tasks.version[done[k]] = k
       /\ branch_params[k] = <<BranchRecord(tasks.params[done[k]], hist[k + 1].value)>>

\* Two calls started in one order and completed in the other: the one
\* started second has slot 0.
C20_Witness ==
  /\ tasks.started = <<1, 2>>
  /\ tasks.completed = <<2, 1>>
  /\ tasks.pc[1] = "done" /\ tasks.pc[2] = "done"
  /\ tasks.slot[2] = 0 /\ tasks.slot[1] = 1
  /\ tasks.version[2] = 1 /\ tasks.version[1] = 2

====
